---------------------------- MODULE Spec2Model ----------------------------
(***************************************************************************)
(* A model of simplemonitor's Monitor class (Monitors/monitor.py) and of   *)
(* the utilities it uses (util/__init__.py).                               *)
(*                                                                         *)
(* Python values are tagged records: the field t is the Python type, the   *)
(* other fields carry the value.  A str is a sequence of one-character     *)
(* strings, so that parsing and formatting are computed character by       *)
(* character.  A Monitor object is its instance __dict__: a function from  *)
(* attribute names to values; an attribute that the instance does not hold *)
(* is looked up in the class, as Python does.                              *)
(***************************************************************************)
EXTENDS Integers, Sequences, FiniteSets, TLC

(***************************************************************************)
(* Bounds of the model.                                                    *)
(***************************************************************************)
\* largest tolerance a configuration file of the model asks for
MaxTolerance == 2
\* largest minimum gap (seconds) a configuration file of the model asks for
MaxGap == 2
\* the clock stops advancing this many seconds after the start
MaxClock == 2
\* tests_run is not driven beyond this many recorded results
MaxTests == 5
\* scheduling cycles of the orchestrated specification
MaxCycles == 3
\* results recorded in the specification of the scheduling gate
MaxGateTests == 1

\* results recorded in a run of the state-transfer specification
MaxTransferTests == 1

\* results recorded in a run of the specification of the hooks
MaxHookTests == 3

\* seconds that pass in a run of the state-transfer specification
MaxTransferClock == 1

\* most whole days in a duration handed to UpDownTime.from_timedelta
MaxDays == 1

\* results recorded in a run of the specification of the unavailable time
MaxAvailTests == 3

\* largest interval a MonitorFail of the model is configured with
MaxInterval == 3

\* run_test calls on a MonitorFail or a MonitorNull
MaxRuns == 12

(***************************************************************************)
(* Python values                                                           *)
(***************************************************************************)
None == [t |-> "NoneType"]

PyInt(n) == [t |-> "int", n |-> n]

PyBool(b) == [t |-> "bool", b |-> b]

PyStr(s) == [t |-> "str", s |-> s]

PyList(items) == [t |-> "list", items |-> items]

PyDict(map) == [t |-> "dict", map |-> map]

\* isinstance(v, int): bool is a subclass of int
IsInstanceInt(v) == v.t \in {"int", "bool"}

\* int(v) of an int or a bool
AsInt(v) == IF v.t = "bool" THEN (IF v.b THEN 1 ELSE 0) ELSE v.n

\* what a call did: it returned ret, or it raised exc; self is the object afterwards
Returned(self, ret) == [self |-> self, raised |-> FALSE, ret |-> ret]

Raised(self, exc) == [self |-> self, raised |-> TRUE, exc |-> exc]

Max(a, b) == IF a >= b THEN a ELSE b

Range(seq) == {seq[i] : i \in 1..Len(seq)}

DigitChars == <<"0", "1", "2", "3", "4", "5", "6", "7", "8", "9">>

IsDigit(c) == c \in Range(DigitChars)

DigitValue(c) == (CHOOSE i \in 1..10 : DigitChars[i] = c) - 1

\* n in decimal, zero-padded to at least w characters (the "%0wd" of strftime)
RECURSIVE Digits(_, _)
Digits(n, w) ==
    IF n < 10 /\ w <= 1 THEN <<DigitChars[n + 1]>>
    ELSE Digits(n \div 10, w - 1) \o <<DigitChars[(n % 10) + 1]>>

\* the number a sequence of digit characters denotes
RECURSIVE DigitsValue(_)
DigitsValue(s) ==
    IF s = <<>> THEN 0
    ELSE 10 * DigitsValue(SubSeq(s, 1, Len(s) - 1)) + DigitValue(s[Len(s)])

(***************************************************************************)
(* util.MonitorState                                                       *)
(***************************************************************************)
MonitorState == [UNKNOWN |-> 0, SKIPPED |-> 1, OK |-> 2, FAILED |-> 3]

StateNames == [UNKNOWN |-> <<"U", "N", "K", "N", "O", "W", "N">>,
               SKIPPED |-> <<"S", "K", "I", "P", "P", "E", "D">>,
               OK |-> <<"O", "K">>,
               FAILED |-> <<"F", "A", "I", "L", "E", "D">>]

\* the member of the enum called k
Member(k) == [t |-> "MonitorState", name |-> StateNames[k], value |-> MonitorState[k]]

UNKNOWN == Member("UNKNOWN")

SKIPPED == Member("SKIPPED")

OK == Member("OK")

FAILED == Member("FAILED")

(***************************************************************************)
(* Time.  The clock is the wall clock: whole seconds since the start of    *)
(* the observed month and the microseconds within the second.  The model's *)
(* runs stay within that month.                                            *)
(***************************************************************************)
EpochYear == 2020

EpochMonth == 1

\* the clock's reading when the observation starts
StartSeconds == 1

USecs == {0, 999999}

\* datetime.datetime
DateTime(Y, m, d, H, M, S, f) ==
    [t |-> "datetime", year |-> Y, month |-> m, day |-> d,
     hour |-> H, minute |-> M, second |-> S, microsecond |-> f]

\* datetime.datetime.utcnow() when the clock reads c
utcnow(c) ==
    DateTime(EpochYear, EpochMonth, 1 + (c.s \div 86400), (c.s % 86400) \div 3600,
             (c.s % 3600) \div 60, c.s % 60, c.us)

\* int(time.time()) when the clock reads c
time_time(c) == c.s

\* seconds of a datetime of the observed month since the month began
SecondsInMonth(dt) ==
    (dt.day - 1) * 86400 + dt.hour * 3600 + dt.minute * 60 + dt.second

\* datetime.__sub__: a normalised datetime.timedelta
timedelta(a, b) ==
    LET us == a.microsecond - b.microsecond
        secs == SecondsInMonth(a) - SecondsInMonth(b) - (IF us < 0 THEN 1 ELSE 0)
    IN  [t |-> "timedelta", days |-> secs \div 86400, seconds |-> secs % 86400,
         microseconds |-> IF us < 0 THEN us + 1000000 ELSE us]

\* datetime.timedelta(days=, hours=, minutes=, seconds=): normalised so that
\* 0 <= seconds < 86400
datetime_timedelta(days, hours, minutes, seconds) ==
    LET Normalised(total) ==
            [t |-> "timedelta", days |-> total \div 86400, seconds |-> total % 86400,
             microseconds |-> 0]
    IN  Normalised(days * 86400 + hours * 3600 + minutes * 60 + seconds)

(***************************************************************************)
(* str methods, on sequences of characters                                 *)
(***************************************************************************)
UpperChars == <<"A", "B", "C", "D", "E", "F", "G", "H", "I", "J", "K", "L", "M",
                "N", "O", "P", "Q", "R", "S", "T", "U", "V", "W", "X", "Y", "Z">>

LowerChars == <<"a", "b", "c", "d", "e", "f", "g", "h", "i", "j", "k", "l", "m",
                "n", "o", "p", "q", "r", "s", "t", "u", "v", "w", "x", "y", "z">>

\* str.lower()
lower(s) ==
    [i \in 1..Len(s) |->
        IF s[i] \in Range(UpperChars)
        THEN LowerChars[CHOOSE k \in 1..26 : UpperChars[k] = s[i]]
        ELSE s[i]]

\* str.strip(): leading and trailing blanks removed
RECURSIVE strip(_)
strip(s) ==
    IF s = <<>> THEN s
    ELSE IF s[1] = " " THEN strip(Tail(s))
    ELSE IF s[Len(s)] = " " THEN strip(SubSeq(s, 1, Len(s) - 1))
    ELSE s

\* str.split(sep) for a one-character separator: a sequence of strs
RECURSIVE split(_, _)
split(s, sep) ==
    LET cut(i) == <<SubSeq(s, 1, i - 1)>> \o split(SubSeq(s, i + 1, Len(s)), sep)
    IN  IF \E i \in 1..Len(s) : s[i] = sep
        THEN cut(CHOOSE k \in 1..Len(s) : s[k] = sep /\ \A j \in 1..(k - 1) : s[j] # sep)
        ELSE <<s>>

\* whether int(s) succeeds: blanks around an optional sign and decimal digits
IsIntText(s) ==
    LET unsigned(b) == IF b # <<>> /\ b[1] \in {"-", "+"} THEN Tail(b) ELSE b
        digits(d) == d # <<>> /\ \A i \in 1..Len(d) : IsDigit(d[i])
    IN  digits(unsigned(strip(s)))

\* int(s), for a text that IsIntText accepts
int(s) ==
    LET value(b) == IF b[1] = "-" THEN 0 - DigitsValue(Tail(b))
                    ELSE IF b[1] = "+" THEN DigitsValue(Tail(b))
                    ELSE DigitsValue(b)
    IN  value(strip(s))

\* "%d" % n
FormatInt(n) == IF n < 0 THEN <<"-">> \o Digits(0 - n, 1) ELSE Digits(n, 1)

(***************************************************************************)
(* util.UpDownTime.  The fields are ints, as from_timedelta passes them.   *)
(***************************************************************************)
UpDownTime(days, hours, minutes, seconds) ==
    [t |-> "UpDownTime", days |-> days, hours |-> hours, minutes |-> minutes,
     seconds |-> seconds]

\* "{}+{:02}:{:02}:{:02}".format(days, hours, minutes, int(seconds))
__str__(self) ==
    FormatInt(self.days) \o <<"+">> \o Digits(self.hours, 2) \o <<":">>
        \o Digits(self.minutes, 2) \o <<":">> \o Digits(self.seconds, 2)

divmod(a, b) == <<a \div b, a % b>>

\* UpDownTime.from_timedelta
from_timedelta(td) ==
    LET Minutes(hours, downtime_seconds) ==
            IF downtime_seconds > 60
            THEN UpDownTime(td.days, hours, divmod(downtime_seconds, 60)[1],
                            divmod(downtime_seconds, 60)[2])
            ELSE UpDownTime(td.days, hours, 0, downtime_seconds)
    IN  IF td = None THEN UpDownTime(0, 0, 0, 0)
        ELSE IF td.seconds > 3600
             THEN Minutes(divmod(td.seconds, 3600)[1], divmod(td.seconds, 3600)[2])
             ELSE Minutes(0, td.seconds)

(***************************************************************************)
(* util.get_config_option.  kwargs is a record of the keyword arguments    *)
(* that the caller passes; Kw supplies the defaults of kwargs.get.         *)
(***************************************************************************)
Kw(kwargs) ==
    kwargs @@ [exception |-> "ValueError", default |-> None, required |-> FALSE,
               required_type |-> "str", allowed_values |-> None, allow_empty |-> TRUE,
               minimum |-> None, maximum |-> None]

\* the value after the conversions of a str value (lines 121-154), or the error raised
ConvertText(value, key, kw) ==
    LET rt == kw.required_type
        bounded(n) == IF kw.minimum # None /\ n < kw.minimum.n
                      THEN Raised(value, kw.exception)
                      ELSE IF kw.maximum # None /\ n > kw.maximum.n
                      THEN Raised(value, kw.exception)
                      ELSE Returned(value, [t |-> rt, n |-> n])
        ints(parts) == IF \E i \in 1..Len(parts) : ~IsIntText(parts[i])
                       THEN Raised(value, kw.exception)
                       ELSE Returned(value,
                                     PyList([i \in 1..Len(parts) |-> PyInt(int(parts[i]))]))
        strs(parts) == Returned(value, PyList([i \in 1..Len(parts) |-> PyStr(strip(parts[i]))]))
    IN  IF rt = "str" /\ value.s = <<>> /\ ~kw.allow_empty
        THEN Raised(value, kw.exception)
        ELSE IF rt \in {"int", "float"}
        THEN IF ~IsIntText(value.s)
             THEN Raised(value, kw.exception)
             ELSE bounded(int(value.s))
        ELSE IF rt = "[int]"
        THEN ints(split(value.s, ","))
        ELSE IF rt = "bool"
        THEN Returned(value, PyBool(lower(value.s) \in {<<"1">>, <<"t", "r", "u", "e">>,
                                                        <<"y", "e", "s">>}))
        ELSE IF rt = "[str]"
        THEN strs(split(value.s, ","))
        ELSE Returned(value, value)

get_config_option(config_options, key, kwargs) ==
    LET allowed(kw) == IF kw.allowed_values = None THEN {}
                       ELSE Range(kw.allowed_values.items)
        checked(kw, value, conv) ==
            IF kw.required /\ value = None THEN Raised(None, kw.exception)
            ELSE IF conv.raised THEN Raised(None, kw.exception)
            ELSE IF conv.ret.t = "list" /\ kw.allowed_values # None
                    /\ kw.allowed_values # PyList(<<>>)
            THEN IF \E i \in 1..Len(conv.ret.items) : conv.ret.items[i] \notin allowed(kw)
                 THEN Raised(None, kw.exception) ELSE Returned(None, conv.ret)
            ELSE IF kw.allowed_values # None /\ conv.ret \notin allowed(kw)
            THEN Raised(None, kw.exception)
            ELSE Returned(None, conv.ret)
        converted(kw, value) ==
            checked(kw, value, IF value.t = "str" /\ kw.required_type # ""
                               THEN ConvertText(value, key, kw) ELSE Returned(value, value))
        found(kw) ==
            IF config_options.t # "dict" THEN Raised(None, kw.exception)
            ELSE converted(kw, IF key \in DOMAIN config_options.map
                               THEN config_options.map[key] ELSE kw.default)
    IN  found(Kw(kwargs))

\* util.short_hostname(): the machine's name up to the first dot
short_hostname(hostname) == PyStr(split(hostname \o <<".">>, ".")[1])


(***************************************************************************)
(* class Monitor.  self is the instance __dict__.                          *)
(***************************************************************************)
\* the attributes set in the class body: what an instance without its own sees
ClassAttrs ==
    [_type |-> PyStr(<<"u", "n", "k", "n", "o", "w", "n">>),
     last_result |-> PyStr(<<>>), error_count |-> PyInt(0), _failed_at |-> None,
     success_count |-> PyInt(0), tests_run |-> PyInt(0), last_error_count |-> PyInt(0),
     last_run_duration |-> PyInt(0), skip_dep |-> None, failures |-> PyInt(0),
     last_failure |-> None, uptime_start |-> None, last_update |-> None,
     _first_load |-> None, unavailable_seconds |-> PyInt(0)]

\* self.<a>: the instance's attribute, else the class's
Attr(self, a) == IF a \in DOMAIN self THEN self[a] ELSE ClassAttrs[a]

\* self.<a> = v for every attribute a of the record new
SetAttrs(self, new) == new @@ self

LoggerPrefix ==
    <<"s", "i", "m", "p", "l", "e", "m", "o", "n", "i", "t", "o", "r", ".",
      "m", "o", "n", "i", "t", "o", "r", "-">>

\* logging.getLogger("simplemonitor.monitor-" + name)
getLogger(name) == [t |-> "Logger", name |-> LoggerPrefix \o name.s]

\* the notify setter
set_notify(self, value) ==
    IF value.t = "bool" THEN Returned(SetAttrs(self, [_notify |-> value]), None)
    ELSE Raised(self, "TypeError")

\* an urgent setter that takes the truth value of anything
set_urgent_Truthy(self, value) ==
    IF value.t = "bool" THEN Returned(SetAttrs(self, [_urgent |-> value]), None)
    ELSE Returned(SetAttrs(self, [_urgent |-> PyBool(value \notin {None, PyInt(0), PyStr(<<>>)})]),
                  None)

\* the urgent setter
set_urgent(self, value) ==
    IF value.t = "bool" THEN Returned(SetAttrs(self, [_urgent |-> value]), None)
    ELSE IF IsInstanceInt(value)
    THEN Returned(SetAttrs(self, [_urgent |-> PyBool(value.n # 0)]), None)
    ELSE Raised(self, "TypeError")

\* the minimum_gap setter
set_minimum_gap(self, gap) ==
    IF IsInstanceInt(gap)
    THEN IF AsInt(gap) < 0 THEN Raised(self, "ValueError")
         ELSE Returned(SetAttrs(self, [_minimum_gap |-> PyInt(AsInt(gap))]), None)
    ELSE Raised(self, "TypeError")

\* Monitor.get_config_option
monitor_get_config_option(config_options, key, kwargs) ==
    get_config_option(config_options, key,
                      [exception |-> "MonitorConfigurationError"] @@ kwargs)

\* Monitor.__init__(name, config_options), at clock reading c on machine hostname
Monitor(name, config_options, c, hostname) ==
    LET opt(key, kwargs) == monitor_get_config_option(config_options, key, kwargs)
        loaded(self) ==
            IF Attr(self, "_first_load") = None
            THEN Returned(SetAttrs(self, [_first_load |-> utcnow(c)]), None)
            ELSE Returned(self, None)
        gapped(set_gap, failure_doc) ==
            IF set_gap.raised THEN Raised(None, set_gap.exc)
            ELSE IF failure_doc.raised THEN Raised(None, "MonitorConfigurationError")
            ELSE loaded(SetAttrs(set_gap.self,
                                 [failure_doc |-> failure_doc.ret,
                                  running_on |-> short_hostname(hostname),
                                  _state |-> UNKNOWN, _force_run |-> PyBool(TRUE)]))
        configured(depend, urgent, notify, group, tolerance, remote_alert, recover_command,
                   recovered_command, gap) ==
            IF \E r \in {depend, urgent, notify, group, tolerance, remote_alert,
                         recover_command, recovered_command, gap} : r.raised
            THEN Raised(None, "MonitorConfigurationError")
            ELSE gapped(set_minimum_gap(
                            [_config_options |-> config_options, name |-> name,
                             _deps |-> PyList(<<>>), monitor_logger |-> getLogger(name),
                             _dependencies |-> depend.ret, _urgent |-> urgent.ret,
                             _notify |-> notify.ret, group |-> group.ret,
                             _tolerance |-> tolerance.ret,
                             remote_alerting |-> remote_alert.ret,
                             _recover_command |-> recover_command.ret,
                             _recovered_command |-> recovered_command.ret,
                             recover_info |-> PyStr(<<>>), recovered_info |-> PyStr(<<>>)],
                            gap.ret),
                        opt("failure_doc", [default |-> None]))
    IN  configured(
            opt("depend", [required_type |-> "[str]", default |-> PyList(<<>>)]),
            opt("urgent", [required_type |-> "bool", default |-> PyBool(TRUE)]),
            opt("notify", [required_type |-> "bool", default |-> PyBool(TRUE)]),
            opt("group", [default |-> PyStr(<<"d", "e", "f", "a", "u", "l", "t">>)]),
            opt("tolerance", [required_type |-> "int", default |-> PyInt(0),
                              minimum |-> PyInt(0)]),
            opt("remote_alert", [required_type |-> "bool", default |-> PyBool(FALSE)]),
            opt("recover_command", [default |-> None]),
            opt("recovered_command", [default |-> None]),
            opt("gap", [required_type |-> "int", minimum |-> PyInt(0),
                        default |-> PyInt(0)]))

\* the dependencies setter
\* a dependencies setter that does not reset the remaining dependencies
set_dependencies_NoReset(self, dependency_list) ==
    IF dependency_list.t # "list" THEN Raised(self, "TypeError")
    ELSE Returned(SetAttrs(self, [_dependencies |-> dependency_list]), None)

set_dependencies(self, dependency_list) ==
    IF dependency_list.t # "list" THEN Raised(self, "TypeError")
    ELSE Returned(SetAttrs(self, [_dependencies |-> dependency_list,
                                  _deps |-> dependency_list]), None)

remaining_dependencies(self) == Attr(self, "_deps")

virtual_fail_count(self) ==
    LET vfs == Attr(self, "error_count").n - Attr(self, "_tolerance").n
    IN  Max(vfs, 0)

test_success(self) == ~(virtual_fail_count(self) # 0)

\* first_failure with "at least" for "equal"
first_failure_AtLeast(self) ==
    IF Attr(self, "error_count").n >= Attr(self, "_tolerance").n + 1 THEN TRUE ELSE FALSE

first_failure(self) ==
    IF Attr(self, "error_count").n = Attr(self, "_tolerance").n + 1 THEN TRUE ELSE FALSE

state(self) == Attr(self, "_state")

\* reset_dependencies that leaves the working copy as the last cycle left it
reset_dependencies_Keep(self) == Returned(self, None)

reset_dependencies(self) ==
    Returned(SetAttrs(self, [_deps |-> Attr(self, "_dependencies")]), None)

\* list.remove(x): the list without its first x, for a list that holds x
ListRemove(items, x) ==
    LET i == CHOOSE k \in 1..Len(items) :
                 items[k] = x /\ \A j \in 1..(k - 1) : items[j] # x
    IN  SubSeq(items, 1, i - 1) \o SubSeq(items, i + 1, Len(items))

dependency_succeeded(self, dependency) ==
    LET deps == Attr(self, "_deps")
    IN  IF dependency \in Range(deps.items)
        THEN Returned(SetAttrs(self, [_deps |-> PyList(ListRemove(deps.items, dependency))]),
                      None)
        ELSE Returned(self, None)

_add_unavailable_seconds(self, c) ==
    IF Attr(self, "last_update") # None /\ Attr(self, "success_count").n = 0
    THEN LET unavailable_delta == timedelta(utcnow(c), Attr(self, "last_update"))
         IN  SetAttrs(self, [unavailable_seconds |->
                 PyInt(Attr(self, "unavailable_seconds").n + unavailable_delta.seconds)])
    ELSE self

\* record_fail that leaves uptime_start as it finds it
record_fail_KeepUptime(self, message, c) ==
    LET counted(s) == SetAttrs(s, [error_count |-> PyInt(Attr(s, "error_count").n + 1)])
        updated(s) == SetAttrs(s, [last_update |-> utcnow(c), last_result |-> message])
        crossed(s) == IF virtual_fail_count(s) = 1
                      THEN SetAttrs(s, [_failed_at |-> utcnow(c), last_failure |-> utcnow(c),
                                        failures |-> PyInt(Attr(s, "failures").n + 1),
                                        _state |-> FAILED])
                      ELSE s
        closed(s) == SetAttrs(s, [success_count |-> PyInt(0),
                                  tests_run |-> PyInt(Attr(s, "tests_run").n + 1)])
    IN  Returned(closed(crossed(updated(_add_unavailable_seconds(counted(self), c)))),
                 PyBool(FALSE))

\* record_fail that stamps and counts every failure past the tolerance
record_fail_EveryFailure(self, message, c) ==
    LET counted(s) == SetAttrs(s, [error_count |-> PyInt(Attr(s, "error_count").n + 1)])
        updated(s) == SetAttrs(s, [last_update |-> utcnow(c), last_result |-> message])
        crossed(s) == IF virtual_fail_count(s) >= 1
                      THEN SetAttrs(s, [_failed_at |-> utcnow(c), last_failure |-> utcnow(c),
                                        failures |-> PyInt(Attr(s, "failures").n + 1),
                                        _state |-> FAILED])
                      ELSE s
        closed(s) == SetAttrs(s, [success_count |-> PyInt(0),
                                  tests_run |-> PyInt(Attr(s, "tests_run").n + 1),
                                  uptime_start |-> None])
    IN  Returned(closed(crossed(updated(_add_unavailable_seconds(counted(self), c)))),
                 PyBool(FALSE))

record_fail(self, message, c) ==
    LET counted(s) == SetAttrs(s, [error_count |-> PyInt(Attr(s, "error_count").n + 1)])
        updated(s) == SetAttrs(s, [last_update |-> utcnow(c), last_result |-> message])
        crossed(s) == IF virtual_fail_count(s) = 1
                      THEN SetAttrs(s, [_failed_at |-> utcnow(c), last_failure |-> utcnow(c),
                                        failures |-> PyInt(Attr(s, "failures").n + 1),
                                        _state |-> FAILED])
                      ELSE s
        closed(s) == SetAttrs(s, [success_count |-> PyInt(0),
                                  tests_run |-> PyInt(Attr(s, "tests_run").n + 1),
                                  uptime_start |-> None])
    IN  Returned(closed(crossed(updated(_add_unavailable_seconds(counted(self), c)))),
                 PyBool(FALSE))

\* record_success that leaves the state as it finds it
record_success_KeepState(self, message, c) ==
    LET captured(s) == IF Attr(s, "error_count").n > 0
                       THEN SetAttrs(s, [last_error_count |-> Attr(s, "error_count")])
                       ELSE s
        started(s) == IF Attr(s, "uptime_start") = None
                      THEN SetAttrs(s, [uptime_start |-> utcnow(c)])
                      ELSE s
        closed(s) == SetAttrs(s, [error_count |-> PyInt(0),
                                  last_update |-> utcnow(c),
                                  success_count |-> PyInt(Attr(s, "success_count").n + 1),
                                  tests_run |-> PyInt(Attr(s, "tests_run").n + 1),
                                  last_result |-> message])
    IN  Returned(closed(_add_unavailable_seconds(started(captured(self)), c)), PyBool(TRUE))

\* record_success that stamps uptime_start on every call
record_success_AlwaysStamp(self, message, c) ==
    LET captured(s) == IF Attr(s, "error_count").n > 0
                       THEN SetAttrs(s, [last_error_count |-> Attr(s, "error_count")])
                       ELSE s
        started(s) == SetAttrs(s, [uptime_start |-> utcnow(c)])
        closed(s) == SetAttrs(s, [_state |-> OK, error_count |-> PyInt(0),
                                  last_update |-> utcnow(c),
                                  success_count |-> PyInt(Attr(s, "success_count").n + 1),
                                  tests_run |-> PyInt(Attr(s, "tests_run").n + 1),
                                  last_result |-> message])
    IN  Returned(closed(_add_unavailable_seconds(started(captured(self)), c)), PyBool(TRUE))

record_success(self, message, c) ==
    LET captured(s) == IF Attr(s, "error_count").n > 0
                       THEN SetAttrs(s, [last_error_count |-> Attr(s, "error_count")])
                       ELSE s
        started(s) == IF Attr(s, "uptime_start") = None
                      THEN SetAttrs(s, [uptime_start |-> utcnow(c)])
                      ELSE s
        closed(s) == SetAttrs(s, [_state |-> OK, error_count |-> PyInt(0),
                                  last_update |-> utcnow(c),
                                  success_count |-> PyInt(Attr(s, "success_count").n + 1),
                                  tests_run |-> PyInt(Attr(s, "tests_run").n + 1),
                                  last_result |-> message])
    IN  Returned(closed(_add_unavailable_seconds(started(captured(self)), c)), PyBool(TRUE))

\* record_skip that sets the state before it records the success
record_skip_StateFirst(self, which_dep, c) ==
    LET skipped(s) == SetAttrs(s, [_state |-> SKIPPED])
    IN  IF which_dep # None
        THEN Returned(SetAttrs(record_success(skipped(self), PyStr(<<>>), c).self,
                               [skip_dep |-> which_dep]), PyBool(TRUE))
        ELSE Returned(skipped(self), PyBool(TRUE))

record_skip(self, which_dep, c) ==
    LET skipped(s) == SetAttrs(s, [_state |-> SKIPPED])
    IN  IF which_dep # None
        THEN Returned(skipped(SetAttrs(record_success(self, PyStr(<<>>), c).self,
                                       [skip_dep |-> which_dep])), PyBool(TRUE))
        ELSE Returned(skipped(self), PyBool(TRUE))

last_virtual_fail_count(self) ==
    LET value == Attr(self, "last_error_count").n - Attr(self, "_tolerance").n
    IN  Max(0, value)

\* all_better_now without the test of success_count
all_better_now_AnySuccess(self) ==
    IF last_virtual_fail_count(self) # 0 /\ ~(Attr(self, "_state") = SKIPPED)
    THEN TRUE ELSE FALSE

all_better_now(self) ==
    IF last_virtual_fail_count(self) # 0
       /\ Attr(self, "success_count").n = 1
       /\ ~(Attr(self, "_state") = SKIPPED)
    THEN TRUE ELSE FALSE

first_failure_time(self) == Attr(self, "_failed_at")

\* should_run that retries only a monitor failing past its tolerance
should_run_PastTolerance(self, c) ==
    LET now == time_time(c)
        stamped == SetAttrs(self, [_last_run |-> PyInt(now)])
    IN  IF Attr(self, "_force_run").b
        THEN Returned(SetAttrs(stamped, [_force_run |-> PyBool(FALSE)]), PyBool(TRUE))
        ELSE IF Attr(self, "_minimum_gap").n = 0 THEN Returned(stamped, PyBool(TRUE))
        ELSE IF virtual_fail_count(self) > 0 THEN Returned(stamped, PyBool(TRUE))
        ELSE IF now - self._last_run.n >= Attr(self, "_minimum_gap").n
        THEN Returned(stamped, PyBool(TRUE))
        ELSE Returned(self, PyBool(FALSE))

\* should_run that asks for more than the minimum gap
should_run_StrictGap(self, c) ==
    LET now == time_time(c)
        stamped == SetAttrs(self, [_last_run |-> PyInt(now)])
    IN  IF Attr(self, "_force_run").b
        THEN Returned(SetAttrs(stamped, [_force_run |-> PyBool(FALSE)]), PyBool(TRUE))
        ELSE IF Attr(self, "_minimum_gap").n = 0 THEN Returned(stamped, PyBool(TRUE))
        ELSE IF Attr(self, "error_count").n > 0 THEN Returned(stamped, PyBool(TRUE))
        ELSE IF now - self._last_run.n > Attr(self, "_minimum_gap").n
        THEN Returned(stamped, PyBool(TRUE))
        ELSE Returned(self, PyBool(FALSE))

\* should_run that stamps the time of the call whatever it answers
should_run_AlwaysStamp(self, c) ==
    LET now == time_time(c)
        stamped == SetAttrs(self, [_last_run |-> PyInt(now)])
    IN  IF Attr(self, "_force_run").b
        THEN Returned(SetAttrs(stamped, [_force_run |-> PyBool(FALSE)]), PyBool(TRUE))
        ELSE IF Attr(self, "_minimum_gap").n = 0 THEN Returned(stamped, PyBool(TRUE))
        ELSE IF Attr(self, "error_count").n > 0 THEN Returned(stamped, PyBool(TRUE))
        ELSE IF now - self._last_run.n >= Attr(self, "_minimum_gap").n
        THEN Returned(stamped, PyBool(TRUE))
        ELSE Returned(stamped, PyBool(FALSE))

\* should_run that leaves _force_run set
should_run_KeepForce(self, c) ==
    LET now == time_time(c)
        stamped == SetAttrs(self, [_last_run |-> PyInt(now)])
    IN  IF Attr(self, "_force_run").b THEN Returned(stamped, PyBool(TRUE))
        ELSE IF Attr(self, "_minimum_gap").n = 0 THEN Returned(stamped, PyBool(TRUE))
        ELSE IF Attr(self, "error_count").n > 0 THEN Returned(stamped, PyBool(TRUE))
        ELSE IF now - self._last_run.n >= Attr(self, "_minimum_gap").n
        THEN Returned(stamped, PyBool(TRUE))
        ELSE Returned(self, PyBool(FALSE))

should_run(self, c) ==
    LET now == time_time(c)
        stamped == SetAttrs(self, [_last_run |-> PyInt(now)])
    IN  IF Attr(self, "_force_run").b
        THEN Returned(SetAttrs(stamped, [_force_run |-> PyBool(FALSE)]), PyBool(TRUE))
        ELSE IF Attr(self, "_minimum_gap").n = 0 THEN Returned(stamped, PyBool(TRUE))
        ELSE IF Attr(self, "error_count").n > 0 THEN Returned(stamped, PyBool(TRUE))
        ELSE IF "_last_run" \notin DOMAIN self THEN Raised(self, "AttributeError")
        ELSE IF self._last_run.n = 0 THEN Returned(stamped, PyBool(TRUE))
        ELSE IF now - self._last_run.n >= Attr(self, "_minimum_gap").n
        THEN Returned(stamped, PyBool(TRUE))
        ELSE Returned(self, PyBool(FALSE))

(***************************************************************************)
(* The status projection: Monitor.state_dict and what it is made of, at    *)
(* clock reading c on machine hostname.                                    *)
(***************************************************************************)
\* datetime.isoformat(sep): the microseconds are written unless they are 0
isoformat(dt, sep) ==
    Digits(dt.year, 4) \o <<"-">> \o Digits(dt.month, 2) \o <<"-">> \o Digits(dt.day, 2)
    \o <<sep>> \o Digits(dt.hour, 2) \o <<":">> \o Digits(dt.minute, 2) \o <<":">>
    \o Digits(dt.second, 2)
    \o (IF dt.microsecond = 0 THEN <<>> ELSE <<".">> \o Digits(dt.microsecond, 6))

\* util.format_datetime
format_datetime(the_datetime) ==
    IF the_datetime = None THEN PyStr(<<>>)
    ELSE IF the_datetime.t = "datetime"
    THEN PyStr(isoformat([the_datetime EXCEPT !.microsecond = 0], " "))
    ELSE the_datetime

\* Monitor.is_remote
is_remote(self, hostname) == Attr(self, "running_on") # short_hostname(hostname)

\* Monitor.describe
describe(self) ==
    PyStr(<<"(", "M", "o", "n", "i", "t", "o", "r", " ", "d", "i", "d", " ",
         "n", "o", "t", " ", "w", "r", "i", "t", "e", " ", "a", "n", " ", "a",
         "u", "t", "o", "-", "b", "i", "o", "g", "r", "a", "p", "h", "y", ".",
         ")">>)

\* Monitor.uptime
uptime(self, c) ==
    IF Attr(self, "uptime_start") # None THEN timedelta(utcnow(c), Attr(self, "uptime_start"))
    ELSE None

\* Monitor.get_downtime
get_downtime(self, c) ==
    IF first_failure_time(self) = None THEN UpDownTime(0, 0, 0, 0)
    ELSE from_timedelta(timedelta(utcnow(c), first_failure_time(self)))

\* Monitor.get_uptime
get_uptime(self, c) ==
    IF uptime(self, c) = None THEN UpDownTime(0, 0, 0, 0)
    ELSE from_timedelta(uptime(self, c))

\* Monitor.state_dict
state_dict(self, c, hostname) ==
    PyDict([failed_at |-> format_datetime(first_failure_time(self)),
            name |-> Attr(self, "name"),
            host |-> Attr(self, "running_on"),
            is_remote |-> PyBool(is_remote(self, hostname)),
            downtime |-> PyStr(__str__(get_downtime(self, c))),
            uptime |-> PyStr(__str__(get_uptime(self, c))),
            vfc |-> PyInt(virtual_fail_count(self)),
            info |-> Attr(self, "last_result"),
            description |-> describe(self),
            recovery_info |-> Attr(self, "recover_info"),
            recovered_info |-> Attr(self, "recovered_info"),
            first_failure_time |-> first_failure_time(self)])

(***************************************************************************)
(* class MonitorFail and class MonitorNull.  __class__ names the class of  *)
(* the instance.                                                           *)
(***************************************************************************)
\* MonitorFail.__init__
MonitorFail(name, config_options, c, hostname) ==
    LET interval(built, got) ==
            IF built.raised THEN built
            ELSE IF got.raised THEN Raised(None, got.exc)
            ELSE Returned(SetAttrs(built.self, [interval |-> got.ret,
                                                __class__ |-> "MonitorFail"]), None)
    IN  interval(Monitor(name, config_options, c, hostname),
                 monitor_get_config_option(config_options, "interval",
                                           [required_type |-> "int", minimum |-> PyInt(1),
                                            default |-> PyInt(5)]))

\* MonitorNull has Monitor's __init__
MonitorNull(name, config_options, c, hostname) ==
    LET classed(built) ==
            IF built.raised THEN built
            ELSE Returned(SetAttrs(built.self, [__class__ |-> "MonitorNull"]), None)
    IN  classed(Monitor(name, config_options, c, hostname))

AlwaysFails ==
    PyStr(<<"T", "h", "i", "s", " ", "m", "o", "n", "i", "t", "o", "r", " ",
              "a", "l", "w", "a", "y", "s", " ", "f", "a", "i", "l", "s", ".">>)

\* MonitorFail.run_test without the test for error_count == 0
MonitorFail_run_test_NoZeroTest(self, c) ==
    IF \/ Attr(self, "interval").n = 0
       \/ Attr(self, "error_count").n % Attr(self, "interval").n # 0
    THEN record_fail(self, AlwaysFails, c)
    ELSE record_success(self, PyStr(<<>>), c)

\* MonitorFail.run_test
MonitorFail_run_test(self, c) ==
    IF \/ Attr(self, "interval").n = 0
       \/ Attr(self, "error_count").n = 0
       \/ Attr(self, "error_count").n % Attr(self, "interval").n # 0
    THEN record_fail(self, AlwaysFails, c)
    ELSE record_success(self, PyStr(<<>>), c)

\* MonitorNull.run_test
MonitorNull_run_test(self, c) == record_success(self, PyStr(<<>>), c)

(***************************************************************************)
(* The hooks.  What the child process does is the environment's choice:    *)
(* it exits with a return code, or launching it raises an exception whose  *)
(* text is e.                                                              *)
(***************************************************************************)
Exited(returncode) == [kind |-> "exit", returncode |-> returncode]

LaunchFailed(e) == [kind |-> "error", e |-> e]

ExecutedText ==
    <<"C", "o", "m", "m", "a", "n", "d", " ", "e", "x", "e", "c", "u", "t", "e", "d",
      " ", "a", "n", "d", " ", "r", "e", "t", "u", "r", "n", "e", "d", " ">>

UnableText ==
    <<"U", "n", "a", "b", "l", "e", " ", "t", "o", " ", "r", "u", "n", " ",
      "c", "o", "m", "m", "a", "n", "d", ":", " ">>

\* the text the try/except around subprocess.Popen leaves
HookInfo(outcome) ==
    IF outcome.kind = "exit"
    THEN PyStr(ExecutedText \o FormatInt(outcome.returncode))
    ELSE PyStr(UnableText \o outcome.e)

\* the result of a hook that called subprocess.Popen(args), and of one that did not
Spawned(result, args) == [popen |-> PyList([i \in 1..Len(args) |-> PyStr(args[i])])] @@ result

NotSpawned(result) == [popen |-> None] @@ result

\* attempt_recover that runs the command on every failure past the tolerance
attempt_recover_WhileFailing(self, outcome) ==
    IF Attr(self, "_recover_command") = None
    THEN NotSpawned(Returned(SetAttrs(self, [recover_info |-> PyStr(<<>>)]), None))
    ELSE IF virtual_fail_count(self) = 0 THEN NotSpawned(Returned(self, None))
    ELSE Spawned(Returned(SetAttrs(self, [recover_info |-> HookInfo(outcome)]), None),
                 split(Attr(self, "_recover_command").s, " "))

attempt_recover(self, outcome) ==
    IF Attr(self, "_recover_command") = None
    THEN NotSpawned(Returned(SetAttrs(self, [recover_info |-> PyStr(<<>>)]), None))
    ELSE IF ~first_failure(self) THEN NotSpawned(Returned(self, None))
    ELSE Spawned(Returned(SetAttrs(self, [recover_info |-> HookInfo(outcome)]), None),
                 split(Attr(self, "_recover_command").s, " "))

\* run_recovered without the except clause around subprocess.Popen
run_recovered_NoExcept(self, outcome) ==
    IF Attr(self, "_recovered_command") = None
    THEN NotSpawned(Returned(SetAttrs(self, [recovered_info |-> PyStr(<<>>)]), None))
    ELSE IF all_better_now(self)
    THEN IF outcome.kind = "exit"
         THEN Spawned(Returned(SetAttrs(self, [recovered_info |-> HookInfo(outcome)]), None),
                      split(Attr(self, "_recovered_command").s, " "))
         ELSE Spawned(Raised(self, "OSError"), split(Attr(self, "_recovered_command").s, " "))
    ELSE NotSpawned(Returned(self, None))

run_recovered(self, outcome) ==
    IF Attr(self, "_recovered_command") = None
    THEN NotSpawned(Returned(SetAttrs(self, [recovered_info |-> PyStr(<<>>)]), None))
    ELSE IF all_better_now(self)
    THEN Spawned(Returned(SetAttrs(self, [recovered_info |-> HookInfo(outcome)]), None),
                 split(Attr(self, "_recovered_command").s, " "))
    ELSE NotSpawned(Returned(self, None))

(***************************************************************************)
(* The state-transfer codec.  The wire holds a JSON document; the model    *)
(* keeps the document as the tree of values its ASCII text denotes (the    *)
(* json package writes and reads that text).  An object is the sequence of *)
(* its <<key, value>> pairs.                                               *)
(***************************************************************************)
DATETIME_MAGIC_TOKEN == "__simplemonitor_datetime"

MONITORSTATE_MAGIC_TOKEN == "__simplemonitor_monitorstate"

JNull == [j |-> "null"]

JNumber(n) == [j |-> "number", n |-> n]

JString(s) == [j |-> "string", s |-> s]

JBoolean(b) == [j |-> "boolean", b |-> b]

JArray(items) == [j |-> "array", items |-> items]

JObject(pairs) == [j |-> "object", pairs |-> pairs]

\* an exception on its way out of a decoder
PyRaise(exc) == [t |-> "raise", exc |-> exc]

\* the elements of a set in a sequence (the order in which a dict lists its keys)
RECURSIVE SetToSeq(_)
SetToSeq(S) ==
    LET from(x) == <<x>> \o SetToSeq(S \ {x})
    IN  IF S = {} THEN <<>> ELSE from(CHOOSE y \in S : TRUE)

\* strftime that writes the time to the millisecond
strftime_Millis(dt) ==
    Digits(dt.year, 4) \o <<"-">> \o Digits(dt.month, 2) \o <<"-">> \o Digits(dt.day, 2)
    \o <<" ">> \o Digits(dt.hour, 2) \o <<":">> \o Digits(dt.minute, 2) \o <<":">>
    \o Digits(dt.second, 2) \o <<".">> \o Digits((dt.microsecond \div 1000) * 1000, 6)

\* datetime.strftime(FORMAT), FORMAT = "%Y-%m-%d %H:%M:%S.%f"
strftime(dt) ==
    Digits(dt.year, 4) \o <<"-">> \o Digits(dt.month, 2) \o <<"-">> \o Digits(dt.day, 2)
    \o <<" ">> \o Digits(dt.hour, 2) \o <<":">> \o Digits(dt.minute, 2) \o <<":">>
    \o Digits(dt.second, 2) \o <<".">> \o Digits(dt.microsecond, 6)

\* JSONDecoder._datetime_re.match(s): the pattern matches a prefix of s
datetime_re_match(s) ==
    /\ Len(s) >= 26
    /\ \A i \in {1, 2, 3, 4, 6, 7, 9, 10, 12, 13, 15, 16, 18, 19,
                 21, 22, 23, 24, 25, 26} : IsDigit(s[i])
    /\ s[5] = "-" /\ s[8] = "-" /\ s[11] = " "
    /\ s[14] = ":" /\ s[17] = ":" /\ s[20] = "."

\* datetime.strptime(s, FORMAT) of a text the pattern matches
strptime(s) ==
    LET num(a, b) == DigitsValue(SubSeq(s, a, b))
        valid(dt) ==
            IF Len(s) # 26 \/ dt.year < 1 \/ dt.month \notin 1..12 \/ dt.day \notin 1..31
               \/ dt.hour > 23 \/ dt.minute > 59 \/ dt.second > 61
            THEN PyRaise("ValueError")
            ELSE dt
    IN  valid(DateTime(num(1, 4), num(6, 7), num(9, 10), num(12, 13), num(15, 16),
                       num(18, 19), num(21, 26)))

\* JSONEncoder.default(obj): what stands for an object json cannot write itself
default(obj) ==
    IF obj.t = "datetime"
    THEN PyDict([k \in {DATETIME_MAGIC_TOKEN} |-> PyStr(strftime(obj))])
    ELSE IF obj.t = "MonitorState"
    THEN PyDict([k \in {MONITORSTATE_MAGIC_TOKEN} |-> PyStr(obj.name)])
    ELSE PyRaise("TypeError")

\* JSONEncoder().encode(data): the document, or the exception raised
RECURSIVE encode(_)
encode(data) ==
    LET array(items) ==
            IF \E i \in 1..Len(items) : "exc" \in DOMAIN items[i]
            THEN items[CHOOSE i \in 1..Len(items) : "exc" \in DOMAIN items[i]]
            ELSE JArray(items)
        object(pairs) ==
            IF \E i \in 1..Len(pairs) : "exc" \in DOMAIN pairs[i][2]
            THEN pairs[CHOOSE i \in 1..Len(pairs) : "exc" \in DOMAIN pairs[i][2]][2]
            ELSE JObject(pairs)
        members(keys) == [i \in 1..Len(keys) |-> <<keys[i], encode(data.map[keys[i]])>>]
    IN  CASE data.t = "NoneType" -> JNull
          [] data.t = "str" -> JString(data.s)
          [] data.t = "int" -> JNumber(data.n)
          [] data.t = "bool" -> JBoolean(data.b)
          [] data.t = "list" ->
                array([i \in 1..Len(data.items) |-> encode(data.items[i])])
          [] data.t = "dict" -> object(members(SetToSeq(DOMAIN data.map)))
          [] data.t = "raise" -> data
          [] OTHER -> encode(default(data))

\* dict(obj) of a sequence of pairs: a later pair of a key replaces an earlier one
dict(obj) ==
    PyDict([k \in {obj[i][1] : i \in 1..Len(obj)} |->
               obj[CHOOSE i \in 1..Len(obj) :
                       obj[i][1] = k /\ \A j \in (i + 1)..Len(obj) : obj[j][1] # k][2]])

\* MonitorState[name]
MonitorStateByName(name) ==
    IF \E k \in DOMAIN StateNames : StateNames[k] = name
    THEN Member(CHOOSE k \in DOMAIN StateNames : StateNames[k] = name)
    ELSE PyRaise("KeyError")

\* JSONDecoder.object_pairs_hook(obj)
object_pairs_hook(obj) ==
    IF Len(obj) = 1 /\ obj[1][1] = DATETIME_MAGIC_TOKEN /\ obj[1][2].t = "str"
       /\ datetime_re_match(obj[1][2].s)
    THEN strptime(obj[1][2].s)
    ELSE IF Len(obj) = 1 /\ obj[1][1] = MONITORSTATE_MAGIC_TOKEN /\ obj[1][2].t = "str"
    THEN MonitorStateByName(obj[1][2].s)
    ELSE dict(obj)

\* JSONDecoder().decode(document): the value, or the exception raised
RECURSIVE decode(_)
decode(doc) ==
    LET array(items) ==
            IF \E i \in 1..Len(items) : items[i].t = "raise"
            THEN items[CHOOSE i \in 1..Len(items) : items[i].t = "raise"]
            ELSE PyList(items)
        object(obj) ==
            IF \E i \in 1..Len(obj) : obj[i][2].t = "raise"
            THEN obj[CHOOSE i \in 1..Len(obj) : obj[i][2].t = "raise"][2]
            ELSE object_pairs_hook(obj)
    IN  CASE doc.j = "null" -> None
          [] doc.j = "string" -> PyStr(doc.s)
          [] doc.j = "number" -> PyInt(doc.n)
          [] doc.j = "boolean" -> PyBool(doc.b)
          [] doc.j = "array" -> array([i \in 1..Len(doc.items) |-> decode(doc.items[i])])
          [] doc.j = "object" ->
                object([i \in 1..Len(doc.pairs) |->
                           <<doc.pairs[i][1], decode(doc.pairs[i][2])>>])

json_dumps(data) ==
    LET result(doc) == IF "exc" \in DOMAIN doc THEN Raised(None, doc.exc)
                       ELSE Returned(None, doc)
    IN  result(encode(data))

json_loads(string) ==
    LET result(value) == IF value.t = "raise" THEN Raised(None, value.exc)
                         ELSE Returned(None, value)
    IN  result(decode(string))

\* Monitor.__getstate__
__getstate__(self) == PyDict([a \in (DOMAIN self) \ {"monitor_logger"} |-> self[a]])

_set_monitor_logger(self) ==
    SetAttrs(self, [monitor_logger |-> getLogger(Attr(self, "name"))])

\* Monitor.__setstate__(state): self.__dict__.update(state)
__setstate__(self, st) == _set_monitor_logger(st.map @@ self)

to_python_dict(self) == __getstate__(self)

\* Monitor.from_python_dict(d), at clock reading c on machine hostname
from_python_dict(d, c, hostname) ==
    LET monitor == Monitor(PyStr(<<"u", "n", "n", "a", "m", "e", "d">>),
                           PyDict([k \in {} |-> None]), c, hostname).self
    IN  __setstate__(monitor, d)

(***************************************************************************)
(* The program's state.                                                    *)
(***************************************************************************)
VARIABLES
    mon,        \* the Monitor object of the free-running specification
    clock,      \* the wall clock: [s |-> seconds, us |-> microseconds]
    lastOp,     \* the last call made: [name |-> the method, arg |-> its argument]
    ret,        \* what that call returned, or the exception it raised
    streak,     \* record_fail calls in a row since error_count was last 0
    received,   \* the Monitor the aggregator rebuilt from the last transfer
    monitors,   \* the orchestrator's Monitor objects, by name
    pending,    \* the monitors the running cycle has yet to process, in order
    cycles,     \* the cycles started
    ran,        \* the monitors whose check the running cycle executed
    failed,     \* the monitors whose check failed in the running cycle
    down,       \* by name: the monitor was actually failing and has not been Ok since
    child       \* the arguments of the child process that the last call started, or None

cycleVars == <<monitors, pending, cycles, ran, failed, down>>

vars == <<mon, clock, lastOp, ret, streak, received, monitors, pending, cycles, ran,
          failed, down, child>>

\* no orchestrator: the specification is of one Monitor object
NoCycle ==
    /\ monitors = <<>> /\ pending = <<>> /\ cycles = 0
    /\ ran = {} /\ failed = {} /\ down = <<>>

\* the machine the monitor runs on, and the aggregator's
Hostname == <<"h", "1", ".", "l", "a", "n">>

AggregatorHostname == <<"h", "2">>

MonitorName == PyStr(<<"m">>)

\* the names of the monitors that a monitor may depend on
DepNames == {PyStr(<<"a">>)}

\* util.get_config_dict: the options of one section of the configuration file,
\* every value a str
get_config_dict(tolerance, gap, full) ==
    LET always == [tolerance |-> PyStr(FormatInt(tolerance)), gap |-> PyStr(FormatInt(gap))]
        more == [depend |-> PyStr(<<"a", ",", " ", "b">>),
                 recover_command |-> PyStr(<<"f", "i", "x", " ", "i", "t">>),
                 recovered_command |-> PyStr(<<"d", "o", "n", "e">>)]
    IN  PyDict(IF full THEN more @@ always ELSE always)

\* what a child process may do
Outcomes == {Exited(0), Exited(1), LaunchFailed(<<"E", "N", "O", "E", "N", "T">>)}

Messages == {PyStr(<<"u", "p">>)}

\* a Monitor built from one section of a configuration file
Built(tolerance, gap, full) ==
    Monitor(MonitorName, get_config_dict(tolerance, gap, full),
            [s |-> StartSeconds, us |-> 0], Hostname)

Init ==
    /\ clock = [s |-> StartSeconds, us |-> 0]
    /\ \E tolerance \in 0..MaxTolerance :
          \E built \in {Built(tolerance, 0, FALSE)} : ~built.raised /\ mon = built.self
    /\ lastOp = [name |-> "__init__", arg |-> None]
    /\ ret = None
    /\ streak = 0
    /\ received = None
    /\ child = None
    /\ NoCycle

\* the call's effect on the variables that every call sets
Call(name, arg, did) ==
    /\ mon' = did.self
    /\ lastOp' = [name |-> name, arg |-> arg]
    /\ ret' = IF did.raised THEN PyRaise(did.exc) ELSE did.ret
    /\ child' = IF "popen" \in DOMAIN did THEN did.popen ELSE None

\* a second passes
Advance ==
    /\ clock.s < StartSeconds + MaxClock
    /\ clock' = [s |-> clock.s + 1, us |-> 0]
    /\ UNCHANGED <<mon, lastOp, ret, streak, received, child>>
    /\ UNCHANGED cycleVars

RecordFailCall ==
    /\ \E message \in Messages : Call("record_fail", message, record_fail(mon, message, clock))
    /\ streak' = IF streak >= 0 THEN streak + 1 ELSE streak
    /\ UNCHANGED <<clock, received>>
    /\ UNCHANGED cycleVars

RecordSuccessCall ==
    /\ \E message \in Messages : Call("record_success", message, record_success(mon, message, clock))
    /\ streak' = 0
    /\ UNCHANGED <<clock, received>>
    /\ UNCHANGED cycleVars

\* record_skip(which_dep), with the name of a dependency or with None
RecordSkipCall ==
    /\ \E which_dep \in DepNames \cup {None} :
          /\ Call("record_skip", which_dep, record_skip(mon, which_dep, clock))
          /\ streak' = IF which_dep # None THEN 0
                       ELSE IF Attr(mon, "error_count").n = 0 THEN 0 ELSE 0 - 1
    /\ UNCHANGED <<clock, received>>
    /\ UNCHANGED cycleVars

ShouldRun ==
    /\ Call("should_run", None, should_run(mon, clock))
    /\ UNCHANGED <<clock, streak, received>>
    /\ UNCHANGED cycleVars

ResetDependencies ==
    /\ Call("reset_dependencies", None, reset_dependencies(mon))
    /\ UNCHANGED <<clock, streak, received>>
    /\ UNCHANGED cycleVars

DependencySucceeded ==
    /\ \E dependency \in DepNames :
          Call("dependency_succeeded", dependency, dependency_succeeded(mon, dependency))
    /\ UNCHANGED <<clock, streak, received>>
    /\ UNCHANGED cycleVars

AttemptRecover(outcomes) ==
    /\ \E outcome \in outcomes : Call("attempt_recover", None, attempt_recover(mon, outcome))
    /\ UNCHANGED <<clock, streak, received>>
    /\ UNCHANGED cycleVars

RunRecovered(outcomes) ==
    /\ \E outcome \in outcomes : Call("run_recovered", None, run_recovered(mon, outcome))
    /\ UNCHANGED <<clock, streak, received>>
    /\ UNCHANGED cycleVars

RecordFail == Attr(mon, "tests_run").n < MaxTests /\ RecordFailCall

RecordSuccess == Attr(mon, "tests_run").n < MaxTests /\ RecordSuccessCall

RecordSkip == Attr(mon, "tests_run").n < MaxTests /\ RecordSkipCall

\* results are recorded at any time, in any order
Next ==
    \/ Advance
    \/ RecordFail
    \/ RecordSuccess
    \/ RecordSkip

Spec == Init /\ [][Next]_vars

(***************************************************************************)
(* The scheduling gate: should_run is called at any time, between any      *)
(* other calls on the monitor.                                             *)
(***************************************************************************)
InitGate ==
    /\ clock = [s |-> StartSeconds, us |-> 0]
    /\ \E tolerance \in 0..1, gap \in 0..MaxGap :
          \E built \in {Built(tolerance, gap, TRUE)} : ~built.raised /\ mon = built.self
    /\ lastOp = [name |-> "__init__", arg |-> None]
    /\ ret = None
    /\ streak = 0
    /\ received = None
    /\ child = None
    /\ NoCycle

GateRecordFail == Attr(mon, "tests_run").n < MaxGateTests /\ RecordFailCall

GateRecordSuccess == Attr(mon, "tests_run").n < MaxGateTests /\ RecordSuccessCall

GateRecordSkip == Attr(mon, "tests_run").n < MaxGateTests /\ RecordSkipCall

NextGate ==
    \/ Advance
    \/ ShouldRun
    \/ GateRecordFail
    \/ GateRecordSuccess
    \/ GateRecordSkip
    \/ ResetDependencies
    \/ DependencySucceeded
    \/ AttemptRecover({Exited(0)})
    \/ RunRecovered({Exited(0)})

SpecGate == InitGate /\ [][NextGate]_vars

(***************************************************************************)
(* State transfer: at any point the agent sends the monitor's state to the *)
(* aggregator, which rebuilds the monitor from it.  One transfer is in     *)
(* flight at a time; the clock has microseconds.                           *)
(***************************************************************************)
\* the aggregator's clock when the state arrives
AggregatorClock(c) == [s |-> c.s + 1, us |-> 1]

\* to_python_dict, json_dumps, json_loads and from_python_dict in turn: the monitor
\* the aggregator ends with, or the exception raised on the way
Transferred(self, c) ==
    LET rebuilt(got) ==
            IF got.raised THEN PyRaise(got.exc)
            ELSE from_python_dict(got.ret, AggregatorClock(c), AggregatorHostname)
        loaded(sent) == IF sent.raised THEN PyRaise(sent.exc) ELSE rebuilt(json_loads(sent.ret))
    IN  loaded(json_dumps(to_python_dict(self)))

InitTransfer ==
    /\ \E us \in USecs : clock = [s |-> StartSeconds, us |-> us]
    /\ \E tolerance \in 0..1 :
          \E built \in {Monitor(MonitorName, get_config_dict(tolerance, 1, TRUE),
                                clock, Hostname)} :
              ~built.raised /\ mon = built.self
    /\ lastOp = [name |-> "__init__", arg |-> None]
    /\ ret = None
    /\ streak = 0
    /\ received = None
    /\ child = None
    /\ NoCycle

\* a second or so passes
AdvanceUSecs ==
    /\ received = None
    /\ clock.s < StartSeconds + MaxTransferClock
    /\ \E us \in USecs : clock' = [s |-> clock.s + 1, us |-> us]
    /\ UNCHANGED <<mon, lastOp, ret, streak, received, child>>
    /\ UNCHANGED cycleVars

Transfer ==
    /\ received = None
    /\ received' = Transferred(mon, clock)
    /\ lastOp' = [name |-> "to_python_dict", arg |-> None]
    /\ UNCHANGED <<mon, clock, ret, streak, child>>
    /\ UNCHANGED cycleVars

\* the aggregator has taken the monitor
Deliver ==
    /\ received # None
    /\ received' = None
    /\ UNCHANGED <<mon, clock, lastOp, ret, streak, child>>
    /\ UNCHANGED cycleVars

TransferRecordFail ==
    received = None /\ Attr(mon, "tests_run").n < MaxTransferTests /\ RecordFailCall

TransferRecordSuccess ==
    received = None /\ Attr(mon, "tests_run").n < MaxTransferTests /\ RecordSuccessCall

TransferRecordSkip ==
    received = None /\ Attr(mon, "tests_run").n < MaxTransferTests /\ RecordSkipCall

TransferShouldRun == received = None /\ ShouldRun

TransferAttemptRecover == received = None /\ AttemptRecover({Exited(0)})

NextTransfer ==
    \/ AdvanceUSecs
    \/ Transfer
    \/ Deliver
    \/ TransferRecordFail
    \/ TransferRecordSuccess
    \/ TransferRecordSkip
    \/ TransferShouldRun
    \/ TransferAttemptRecover

SpecTransfer == InitTransfer /\ [][NextTransfer]_vars

(***************************************************************************)
(* The hooks: attempt_recover and run_recovered are called at any time     *)
(* between recorded results, and the child process ends in any way.        *)
(***************************************************************************)
InitHooks ==
    /\ clock = [s |-> StartSeconds, us |-> 0]
    /\ \E tolerance \in 0..1, configured \in BOOLEAN :
          \E built \in {Built(tolerance, 0, configured)} :
              ~built.raised /\ mon = built.self
    /\ lastOp = [name |-> "__init__", arg |-> None]
    /\ ret = None
    /\ streak = 0
    /\ received = None
    /\ child = None
    /\ NoCycle

HookRecordFail == Attr(mon, "tests_run").n < MaxHookTests /\ RecordFailCall

HookRecordSuccess == Attr(mon, "tests_run").n < MaxHookTests /\ RecordSuccessCall

HookRecordSkip == Attr(mon, "tests_run").n < MaxHookTests /\ RecordSkipCall

NextHooks ==
    \/ HookRecordFail
    \/ HookRecordSuccess
    \/ HookRecordSkip
    \/ AttemptRecover(Outcomes)
    \/ RunRecovered(Outcomes)

SpecHooks == InitHooks /\ [][NextHooks]_vars

(***************************************************************************)
(* Durations: a timedelta is decomposed by UpDownTime.from_timedelta and   *)
(* the result rendered by str().  lastOp.arg is the argument of the call,  *)
(* ret its result.                                                         *)
(***************************************************************************)
\* the hours, minutes and seconds of the durations: the ends and the inside of
\* each field's range
SampleHours == {0, 1, 2, 23}

SampleMinutes == {0, 1, 3, 59}

SampleSeconds == {0, 1, 4, 59}

Durations ==
    {datetime_timedelta(d, h, m, sec) :
        d \in 0..MaxDays, h \in SampleHours, m \in SampleMinutes, sec \in SampleSeconds}
    \cup {None}

InitUpDown ==
    /\ clock = [s |-> StartSeconds, us |-> 0]
    /\ mon = None
    /\ \E td \in Durations : lastOp = [name |-> "timedelta", arg |-> td]
    /\ ret = None
    /\ streak = 0
    /\ received = None
    /\ child = None
    /\ NoCycle

FromTimedelta ==
    /\ lastOp.name = "timedelta"
    /\ lastOp' = [name |-> "from_timedelta", arg |-> lastOp.arg]
    /\ ret' = from_timedelta(lastOp.arg)
    /\ UNCHANGED <<mon, clock, streak, received, child>>
    /\ UNCHANGED cycleVars

Str ==
    /\ lastOp.name = "from_timedelta"
    /\ lastOp' = [name |-> "__str__", arg |-> ret]
    /\ ret' = PyStr(__str__(ret))
    /\ UNCHANGED <<mon, clock, streak, received, child>>
    /\ UNCHANGED cycleVars

NextUpDown ==
    \/ FromTimedelta
    \/ Str

SpecUpDown == InitUpDown /\ [][NextUpDown]_vars

(***************************************************************************)
(* Configuration: a Monitor is constructed from a dict of options whose    *)
(* values are the text of a configuration file or native Python numbers,   *)
(* and the resolver is called on it with a minimum and a maximum.          *)
(* lastOp.arg holds the dict and, for the resolver, the key and kwargs.    *)
(***************************************************************************)
\* the number n as a configuration file holds it, or as Python code passes it
Number(form, n) == IF form = "text" THEN PyStr(FormatInt(n)) ELSE PyInt(n)

Numbers(most) == {Number(form, n) : form \in {"text", "native"}, n \in (0 - 1)..most}

\* the config_options argument of Monitor.__init__
ConfigOptions ==
    {PyDict([tolerance |-> tolerance, gap |-> gap]) :
        tolerance \in Numbers(MaxTolerance), gap \in Numbers(MaxGap)}

\* the keyword arguments of the resolver's callers that give bounds
BoundedKwargs ==
    {[required_type |-> required_type, minimum |-> PyInt(0), maximum |-> PyInt(1)] :
        required_type \in {"int", "float"}}

InitConfig ==
    /\ clock = [s |-> StartSeconds, us |-> 0]
    /\ mon = None
    /\ \E config_options \in ConfigOptions :
          lastOp = [name |-> "config", arg |-> [config_options |-> config_options]]
    /\ ret = None
    /\ streak = 0
    /\ received = None
    /\ child = None
    /\ NoCycle

\* Monitor(name, config_options)
Construct ==
    /\ lastOp.name = "config"
    /\ \E built \in {Monitor(MonitorName, lastOp.arg.config_options, clock, Hostname)} :
          /\ mon' = IF built.raised THEN None ELSE built.self
          /\ ret' = IF built.raised THEN PyRaise(built.exc) ELSE None
    /\ lastOp' = [name |-> "__init__", arg |-> lastOp.arg]
    /\ UNCHANGED <<clock, streak, received, child>>
    /\ UNCHANGED cycleVars

\* get_config_option(config_options, key, required_type=, minimum=, maximum=)
GetConfigOption ==
    /\ lastOp.name = "config"
    /\ \E key \in {"tolerance", "gap"}, kwargs \in BoundedKwargs :
          \E got \in {get_config_option(lastOp.arg.config_options, key, kwargs)} :
             /\ ret' = IF got.raised THEN PyRaise(got.exc) ELSE got.ret
             /\ lastOp' = [name |-> "get_config_option",
                           arg |-> [config_options |-> lastOp.arg.config_options,
                                    key |-> key, kwargs |-> kwargs]]
    /\ UNCHANGED <<mon, clock, streak, received, child>>
    /\ UNCHANGED cycleVars

NextConfig ==
    \/ Construct
    \/ GetConfigOption

SpecConfig == InitConfig /\ [][NextConfig]_vars

(***************************************************************************)
(* Assignments: the properties notify, urgent and minimum_gap of a Monitor *)
(* are assigned values of any type, in any order.                          *)
(***************************************************************************)
\* a float
PyFloat(n) == [t |-> "float", n |-> n]

\* the values assigned
Assigned ==
    {PyBool(FALSE), PyBool(TRUE), None, PyStr(<<"1">>), PyFloat(1)}
    \cup {PyInt(n) : n \in (0 - 1)..MaxGap}

InitSetters ==
    /\ clock = [s |-> StartSeconds, us |-> 0]
    /\ \E built \in {Built(0, 0, FALSE)} : ~built.raised /\ mon = built.self
    /\ lastOp = [name |-> "__init__", arg |-> None]
    /\ ret = None
    /\ streak = 0
    /\ received = None
    /\ child = None
    /\ NoCycle

\* monitor.notify = value
SetNotify ==
    /\ \E value \in Assigned : Call("notify", value, set_notify(mon, value))
    /\ UNCHANGED <<clock, streak, received>>
    /\ UNCHANGED cycleVars

\* monitor.urgent = value
SetUrgent ==
    /\ \E value \in Assigned : Call("urgent", value, set_urgent(mon, value))
    /\ UNCHANGED <<clock, streak, received>>
    /\ UNCHANGED cycleVars

\* monitor.minimum_gap = gap
SetMinimumGap ==
    /\ \E gap \in Assigned : Call("minimum_gap", gap, set_minimum_gap(mon, gap))
    /\ UNCHANGED <<clock, streak, received>>
    /\ UNCHANGED cycleVars

NextSetters ==
    \/ SetNotify
    \/ SetUrgent
    \/ SetMinimumGap

SpecSetters == InitSetters /\ [][NextSetters]_vars

(***************************************************************************)
(* Dependencies: a Monitor is configured with a list of names, which may   *)
(* name a monitor twice; the list is assigned, reset and worked off in any *)
(* order.                                                                  *)
(***************************************************************************)
\* the depend option of the configuration file
DependTexts ==
    {<<"a">>, <<"a", ",", " ", "b">>, <<"a", ",", " ", "a">>, <<"b", ",", "a", ",", "b">>}

\* the names that monitors report as succeeded
SucceededNames == {PyStr(<<"a">>), PyStr(<<"b">>), PyStr(<<"c">>)}

\* the lists assigned to Monitor.dependencies
DependencyLists ==
    {PyList(<<>>), PyList(<<PyStr(<<"a">>), PyStr(<<"c">>), PyStr(<<"a">>)>>)}

InitDeps ==
    /\ clock = [s |-> StartSeconds, us |-> 0]
    /\ \E depend \in DependTexts :
          \E built \in {Monitor(MonitorName, PyDict([depend |-> PyStr(depend)]),
                                clock, Hostname)} :
             ~built.raised /\ mon = built.self
    /\ lastOp = [name |-> "__init__", arg |-> None]
    /\ ret = None
    /\ streak = 0
    /\ received = None
    /\ child = None
    /\ NoCycle

\* monitor.dependencies = dependency_list
SetDependencies ==
    /\ \E dependency_list \in DependencyLists :
          Call("dependencies", dependency_list, set_dependencies(mon, dependency_list))
    /\ UNCHANGED <<clock, streak, received>>
    /\ UNCHANGED cycleVars

\* dependency_succeeded(dependency) with the name of any monitor
AnyDependencySucceeded ==
    /\ \E dependency \in SucceededNames :
          Call("dependency_succeeded", dependency, dependency_succeeded(mon, dependency))
    /\ UNCHANGED <<clock, streak, received>>
    /\ UNCHANGED cycleVars

NextDeps ==
    \/ SetDependencies
    \/ ResetDependencies
    \/ AnyDependencySucceeded

SpecDeps == InitDeps /\ [][NextDeps]_vars

(***************************************************************************)
(* Unavailable time: results are recorded seconds or a day apart.          *)
(***************************************************************************)
\* the time that passes between two calls: a second, or a day
Leaps == {1, 86400}

InitAvail ==
    /\ clock = [s |-> StartSeconds, us |-> 0]
    /\ \E tolerance \in 0..1 :
          \E built \in {Built(tolerance, 0, FALSE)} : ~built.raised /\ mon = built.self
    /\ lastOp = [name |-> "__init__", arg |-> None]
    /\ ret = None
    /\ streak = 0
    /\ received = None
    /\ child = None
    /\ NoCycle

\* a second passes, or a day: at most MaxClock seconds and one day in a run
Leap ==
    /\ \E leap \in Leaps :
          /\ (clock.s + leap - StartSeconds) % 86400 <= MaxClock
          /\ clock.s + leap - StartSeconds < 2 * 86400
          /\ clock' = [s |-> clock.s + leap, us |-> 0]
    /\ UNCHANGED <<mon, lastOp, ret, streak, received, child>>
    /\ UNCHANGED cycleVars

AvailRecordFail == Attr(mon, "tests_run").n < MaxAvailTests /\ RecordFailCall

AvailRecordSuccess == Attr(mon, "tests_run").n < MaxAvailTests /\ RecordSuccessCall

AvailRecordSkip == Attr(mon, "tests_run").n < MaxAvailTests /\ RecordSkipCall

NextAvail ==
    \/ Leap
    \/ AvailRecordFail
    \/ AvailRecordSuccess
    \/ AvailRecordSkip

SpecAvail == InitAvail /\ [][NextAvail]_vars

(***************************************************************************)
(* The test monitors: a MonitorFail or a MonitorNull is driven by run_test *)
(* calls alone.  streak counts the failed run_test calls in a row.         *)
(***************************************************************************)
\* the interval option: absent, or 1..MaxInterval as text or as a number
Intervals ==
    {PyDict([tolerance |-> PyStr(FormatInt(tolerance))]) : tolerance \in 0..1}
    \cup {PyDict([tolerance |-> PyStr(FormatInt(tolerance)), interval |-> Number(form, n)]) :
             tolerance \in 0..1, form \in {"text", "native"}, n \in 1..MaxInterval}

InitTests ==
    /\ clock = [s |-> StartSeconds, us |-> 0]
    /\ \E config_options \in Intervals :
          \E built \in {MonitorFail(MonitorName, config_options, clock, Hostname),
                        MonitorNull(MonitorName, config_options, clock, Hostname)} :
             ~built.raised /\ mon = built.self
    /\ lastOp = [name |-> "__init__", arg |-> None]
    /\ ret = None
    /\ streak = 0
    /\ received = None
    /\ child = None
    /\ NoCycle

\* run_test() on the MonitorFail
FailRunTest ==
    /\ Attr(mon, "__class__") = "MonitorFail"
    /\ Attr(mon, "tests_run").n < MaxRuns
    /\ \E did \in {MonitorFail_run_test(mon, clock)} :
          /\ Call("run_test", None, did)
          /\ streak' = IF did.ret = PyBool(FALSE) THEN streak + 1 ELSE 0
    /\ UNCHANGED <<clock, received>>
    /\ UNCHANGED cycleVars

\* run_test() on the MonitorNull
NullRunTest ==
    /\ Attr(mon, "__class__") = "MonitorNull"
    /\ Attr(mon, "tests_run").n < MaxRuns
    /\ \E did \in {MonitorNull_run_test(mon, clock)} :
          /\ Call("run_test", None, did)
          /\ streak' = IF did.ret = PyBool(FALSE) THEN streak + 1 ELSE 0
    /\ UNCHANGED <<clock, received>>
    /\ UNCHANGED cycleVars

NextTests ==
    \/ FailRunTest
    \/ NullRunTest

SpecTests == InitTests /\ [][NextTests]_vars

(***************************************************************************)
(* The scheduling cycle.  The orchestrator resets the dependencies of      *)
(* every monitor, then takes the monitors in dependency order: a monitor   *)
(* with dependencies left is skipped, another is run if its gate allows,   *)
(* its result recorded, its hooks called and, when its check passed, its   *)
(* dependents told.                                                        *)
(***************************************************************************)
\* the monitors of the configuration file, in dependency order: b depends on a,
\* c depends on b
CycleNames == <<"a", "b", "c">>

NameOf(n) == PyStr(<<n>>)

\* the section of the configuration file for monitor n
CycleSection(n, tolerance, gap) ==
    LET always == [tolerance |-> PyStr(FormatInt(tolerance)), gap |-> PyStr(FormatInt(gap))]
    IN  PyDict(IF n = "a" THEN always
               ELSE [depend |-> IF n = "b" THEN NameOf("a") ELSE NameOf("b")] @@ always)

\* the monitors that name n among their dependencies
Dependents(n) ==
    {k \in DOMAIN monitors : NameOf(n) \in Range(Attr(monitors[k], "_dependencies").items)}

\* the monitor has dependencies left in this cycle
Blocked(self) == remaining_dependencies(self).items # <<>>

\* the history of monitor n after a tick left it as self
Down(n, self) ==
    IF virtual_fail_count(self) > 0 THEN TRUE
    ELSE IF state(self) = OK THEN FALSE
    ELSE down[n]

InitCycle ==
    /\ clock = [s |-> StartSeconds, us |-> 0]
    /\ \E tolerance \in 0..1, gap \in {0, MaxGap} :
          \E built \in {[n \in Range(CycleNames) |->
                            Monitor(NameOf(n), CycleSection(n, tolerance, gap), clock,
                                    Hostname)]} :
              /\ \A n \in Range(CycleNames) : ~built[n].raised
              /\ monitors = [n \in Range(CycleNames) |-> built[n].self]
    /\ \E built \in {Built(0, 0, FALSE)} : mon = built.self
    /\ lastOp = [name |-> "__init__", arg |-> None]
    /\ ret = None
    /\ streak = 0
    /\ received = None
    /\ child = None
    /\ pending = <<>> /\ cycles = 0 /\ ran = {} /\ failed = {}
    /\ down = [n \in Range(CycleNames) |-> FALSE]

\* a cycle starts, a second after the one before
StartCycle ==
    /\ pending = <<>>
    /\ cycles < MaxCycles
    /\ clock' = [s |-> clock.s + 1, us |-> 0]
    /\ monitors' = [n \in DOMAIN monitors |-> reset_dependencies(monitors[n]).self]
    /\ pending' = CycleNames
    /\ cycles' = cycles + 1
    /\ ran' = {} /\ failed' = {}
    /\ UNCHANGED <<mon, lastOp, ret, streak, received, down, child>>

\* the next monitor has dependencies left: record_skip with one of them
SkipBlocked ==
    /\ pending # <<>>
    /\ Blocked(monitors[Head(pending)])
    /\ \E n \in {Head(pending)} :
          \E entry \in Range(remaining_dependencies(monitors[n]).items) :
              \E skipped \in {record_skip(monitors[n], entry, clock).self} :
                  /\ monitors' = [monitors EXCEPT ![n] = skipped]
                  /\ down' = [down EXCEPT ![n] = Down(n, skipped)]
    /\ pending' = Tail(pending)
    /\ UNCHANGED <<mon, clock, lastOp, ret, streak, received, cycles, ran, failed, child>>

\* the gate allowed the next monitor to run
Allowed(self) ==
    \E gate \in {should_run(self, clock)} : ~gate.raised /\ gate.ret = PyBool(TRUE)

\* the next monitor's check runs and passes
CheckPasses ==
    /\ pending # <<>>
    /\ ~Blocked(monitors[Head(pending)])
    /\ Allowed(monitors[Head(pending)])
    /\ \E n \in {Head(pending)}, message \in Messages :
          \E recorded \in {record_success(should_run(monitors[n], clock).self,
                                          message, clock).self} :
              \E hook \in {run_recovered(recorded, Exited(0))} : \E hooked \in {hook.self} :
                  /\ child' = hook.popen
                  /\ monitors' =
                         [k \in DOMAIN monitors |->
                             IF k = n THEN hooked
                             ELSE IF k \in Dependents(n)
                             THEN dependency_succeeded(monitors[k], NameOf(n)).self
                             ELSE monitors[k]]
                  /\ down' = [down EXCEPT ![n] = Down(n, hooked)]
                  /\ ran' = ran \cup {n}
    /\ pending' = Tail(pending)
    /\ UNCHANGED <<mon, clock, lastOp, ret, streak, received, cycles, failed>>

\* the next monitor's check runs and fails
CheckFails ==
    /\ pending # <<>>
    /\ ~Blocked(monitors[Head(pending)])
    /\ Allowed(monitors[Head(pending)])
    /\ \E n \in {Head(pending)}, message \in Messages :
          \E recorded \in {record_fail(should_run(monitors[n], clock).self,
                                       message, clock).self} :
              \E hook \in {attempt_recover(recorded, Exited(0))} : \E hooked \in {hook.self} :
                  /\ child' = hook.popen
                  /\ monitors' = [monitors EXCEPT ![n] = hooked]
                  /\ down' = [down EXCEPT ![n] = Down(n, hooked)]
                  /\ ran' = ran \cup {n}
                  /\ failed' = failed \cup {n}
    /\ pending' = Tail(pending)
    /\ UNCHANGED <<mon, clock, lastOp, ret, streak, received, cycles>>

\* the gate does not allow the next monitor to run: nothing is recorded
Declined ==
    /\ pending # <<>>
    /\ ~Blocked(monitors[Head(pending)])
    /\ \E n \in {Head(pending)} :
          \E gate \in {should_run(monitors[n], clock)} :
              /\ ~gate.raised /\ gate.ret = PyBool(FALSE)
              /\ monitors' = [monitors EXCEPT ![n] = gate.self]
    /\ pending' = Tail(pending)
    /\ UNCHANGED <<mon, clock, lastOp, ret, streak, received, cycles, ran, failed, down,
                   child>>

NextCycle ==
    \/ StartCycle
    \/ SkipBlocked
    \/ CheckPasses
    \/ CheckFails
    \/ Declined

SpecCycle == InitCycle /\ [][NextCycle]_vars

(***************************************************************************)
(* Properties of the recorded results (specification Spec)                 *)
(***************************************************************************)
Tolerance == Attr(mon, "_tolerance").n

ErrorCount == Attr(mon, "error_count").n

\* the step is a call of the method: calls leave the clock alone, time passing
\* leaves lastOp alone
IsCall(name) == lastOp'.name = name /\ clock' = clock

\* C1: after k record_fail calls in a row from error_count = 0, virtual_fail_count()
\* is max(k - tolerance, 0), and first_failure() holds exactly when k = tolerance + 1.
C1_FailStreak ==
    (lastOp.name = "record_fail" /\ streak >= 1) =>
        /\ virtual_fail_count(mon) = Max(streak - Tolerance, 0)
        /\ first_failure(mon) <=> (streak = Tolerance + 1)

\* tolerance 2, the 4th failure in a row: two past the tolerance, no first failure
C1_Witness ==
    /\ lastOp.name = "record_fail" /\ streak = 4 /\ Tolerance = 2
    /\ virtual_fail_count(mon) = 2 /\ ~first_failure(mon)

\* C3: a record_success that ends a streak of failures past the tolerance makes
\* all_better_now() true, the record_success that follows it makes it false again,
\* and one that ends a streak within the tolerance leaves it false.
C3_JustRecovered ==
    [][IsCall("record_success") =>
          /\ ErrorCount > Tolerance => all_better_now(mon')
          /\ ErrorCount <= Tolerance => ~all_better_now(mon')
          /\ lastOp.name = "record_success" => ~all_better_now(mon')]_vars

\* the success after three failures in a row with tolerance 2
C3_Witness ==
    /\ lastOp.name = "record_success" /\ Tolerance = 2
    /\ Attr(mon, "last_error_count").n = 3 /\ all_better_now(mon)

\* C8: record_skip with a dependency's name leaves the state SKIPPED, skip_dep the
\* name, error_count 0 and the monitor passing, with neither first_failure() nor
\* all_better_now() true and the failures counter as it was.
C8_SkipNoEdge ==
    [][(IsCall("record_skip") /\ lastOp'.arg # None) =>
          /\ state(mon') = SKIPPED
          /\ Attr(mon', "skip_dep") = lastOp'.arg
          /\ Attr(mon', "error_count").n = 0
          /\ test_success(mon')
          /\ ~first_failure(mon')
          /\ ~all_better_now(mon')
          /\ Attr(mon', "failures") = Attr(mon, "failures")]_vars

\* a monitor failing past its tolerance has just been skipped for a dependency
C8_Witness ==
    /\ lastOp.name = "record_skip" /\ lastOp.arg # None
    /\ state(mon) = SKIPPED
    /\ last_virtual_fail_count(mon) > 0 /\ Attr(mon, "success_count").n = 1
    /\ Attr(mon, "failures").n = 1

(***************************************************************************)
(* Properties of the scheduling gate (specification SpecGate)              *)
(***************************************************************************)
MinimumGap == Attr(mon, "_minimum_gap").n

ForceRun == Attr(mon, "_force_run").b

\* self._last_run, None while the attribute does not exist
LastRun(self) == IF "_last_run" \in DOMAIN self THEN self._last_run ELSE None

\* C4: should_run returns True whenever the minimum gap is 0 or error_count is
\* positive, whatever time has passed since the last run it allowed.
C4_AlwaysRuns ==
    [][(IsCall("should_run") /\ (MinimumGap = 0 \/ ErrorCount > 0)) =>
          ret' = PyBool(TRUE)]_vars

\* a monitor failing within its tolerance was allowed to run in the very second of
\* its last run, with a gap configured
C4_Witness ==
    /\ lastOp.name = "should_run" /\ ret = PyBool(TRUE)
    /\ MinimumGap > 0 /\ ErrorCount > 0 /\ test_success(mon) /\ ~ForceRun
    /\ Attr(mon, "last_update").second = clock.s % 60

C6_LastRunFrame ==
    [][/\ (IsCall("should_run") /\ ret' = PyBool(FALSE)) =>
              /\ LastRun(mon') = LastRun(mon)
              /\ Attr(mon', "_force_run") = Attr(mon, "_force_run")
       /\ (IsCall("should_run") /\ ret' = PyBool(TRUE)) =>
              LastRun(mon') = PyInt(time_time(clock))
       /\ ~IsCall("should_run") => LastRun(mon') = LastRun(mon)]_vars

\* a hook ran its command after the gate last allowed a run, and the stamp is old
C6_Witness ==
    /\ lastOp.name = "attempt_recover"
    /\ Attr(mon, "recover_info") # PyStr(<<>>)
    /\ LastRun(mon) # None /\ LastRun(mon).n < time_time(clock)

\* C7: the first should_run of a new monitor returns True whatever the gap and
\* error_count, and clears _force_run, which is never set again.
C7_ForceOnce ==
    /\ [](LastRun(mon) = None => ForceRun)
    /\ [][(IsCall("should_run") /\ ForceRun) =>
              (ret' = PyBool(TRUE) /\ ~Attr(mon', "_force_run").b)]_vars
    /\ [][~ForceRun => ~Attr(mon', "_force_run").b]_vars

\* the first call was made with a gap configured and after a recorded success
C7_Witness ==
    /\ lastOp.name = "should_run" /\ ret = PyBool(TRUE) /\ ~ForceRun
    /\ MinimumGap = MaxGap /\ Attr(mon, "tests_run").n = 1 /\ ErrorCount = 0
    /\ LastRun(mon) = PyInt(StartSeconds)

(***************************************************************************)
(* Properties of the state transfer (specification SpecTransfer)           *)
(***************************************************************************)
\* the attributes an instance may carry, the logging handle apart
Fields(self) == (DOMAIN self) \ {"monitor_logger"}

RECURSIVE Upstream(_, _)
Upstream(n, depth) ==
    LET direct == {k \in DOMAIN monitors :
                       NameOf(k) \in Range(Attr(monitors[n], "_dependencies").items)}
    IN  IF depth = 0 THEN {}
        ELSE direct \cup UNION {Upstream(k, depth - 1) : k \in direct}

DependsOn(n) == Upstream(n, Len(CycleNames))

\* the running cycle has processed monitor n
Processed(n) == cycles > 0 /\ n \notin Range(pending)

\* C9: a monitor's check is not executed in a cycle in which the check of one of
\* the monitors it depends on, directly or through others, failed; once processed
\* in such a cycle, the monitor is in state SKIPPED.
C9_SkipCascade ==
    \A n \in DOMAIN monitors :
        (DependsOn(n) \cap failed # {}) =>
            /\ n \notin ran
            /\ Processed(n) => state(monitors[n]) = SKIPPED

\* in the second cycle a failed and both b and c, which ran in the first, were skipped
C9_Witness ==
    /\ cycles = 2 /\ pending = <<>> /\ failed = {"a"} /\ ran = {"a"}
    /\ state(monitors["b"]) = SKIPPED /\ state(monitors["c"]) = SKIPPED
    /\ Attr(monitors["c"], "skip_dep") = NameOf("b")
    /\ Attr(monitors["c"], "tests_run").n = 2
    /\ Attr(monitors["c"], "failures").n = 1

\* the step records a result for monitor n
Recorded(n) ==
    /\ pending # <<>> /\ Head(pending) = n
    /\ Attr(monitors'[n], "tests_run") # Attr(monitors[n], "tests_run")

\* C2: of the ticks that record a result, first_failure() holds after exactly those
\* on which test_success() turns false, and all_better_now() after exactly those
\* that bring a monitor that was actually failing back to state OK.
C2_EdgesOncePerTransition ==
    [][\A n \in DOMAIN monitors :
          Recorded(n) =>
              /\ first_failure(monitors'[n]) <=>
                     (test_success(monitors[n]) /\ ~test_success(monitors'[n]))
              /\ all_better_now(monitors'[n]) <=>
                     (down[n] /\ state(monitors'[n]) = OK)]_vars

(***************************************************************************)
(* Properties of the hooks (specification SpecHooks)                       *)
(***************************************************************************)
\* the list of strs that str.split gives for the words
Words(words) == PyList([i \in 1..Len(words) |-> PyStr(words[i])])

\* C11: attempt_recover starts the recover command exactly when one is configured
\* and first_failure() holds, run_recovered starts the recovered command exactly
\* when one is configured and all_better_now() holds; a call that starts nothing
\* leaves recover_info and recovered_info as they were.
C11_HooksOnEdges ==
    [][/\ IsCall("attempt_recover") =>
              /\ child' # None <=>
                     (Attr(mon, "_recover_command") # None /\ first_failure(mon))
              /\ child' # None => child' = Words(<<<<"f", "i", "x">>, <<"i", "t">>>>)
       /\ IsCall("run_recovered") =>
              /\ child' # None <=>
                     (Attr(mon, "_recovered_command") # None /\ all_better_now(mon))
              /\ child' # None => child' = Words(<<<<"d", "o", "n", "e">>>>)
       /\ ((IsCall("attempt_recover") \/ IsCall("run_recovered")) /\ child' = None) =>
              /\ Attr(mon', "recover_info") = Attr(mon, "recover_info")
              /\ Attr(mon', "recovered_info") = Attr(mon, "recovered_info")]_vars

\* the recover command ran on the first failure past a tolerance of 1
C11_Witness ==
    /\ lastOp.name = "attempt_recover"
    /\ child = Words(<<<<"f", "i", "x">>, <<"i", "t">>>>)
    /\ Tolerance = 1 /\ ErrorCount = 2
    /\ Attr(mon, "recover_info") = PyStr(ExecutedText \o <<"0">>)

\* the texts a hook leaves for the ways the child process ends
HookTexts ==
    {PyStr(ExecutedText \o <<"0">>), PyStr(ExecutedText \o <<"1">>),
     PyStr(UnableText \o <<"E", "N", "O", "E", "N", "T">>)}

Counters ==
    <<Attr(mon, "error_count"), Attr(mon, "success_count"), Attr(mon, "tests_run"),
      Attr(mon, "failures"), Attr(mon, "last_error_count"), Attr(mon, "_state")>>

\* C12: attempt_recover and run_recovered return without raising however the child
\* process ends, leave the text of the outcome in recover_info or recovered_info,
\* and leave error_count, success_count, tests_run, failures, last_error_count and
\* the state as they were.
C12_HooksIsolated ==
    [][(IsCall("attempt_recover") \/ IsCall("run_recovered")) =>
          /\ ret' = None
          /\ Counters' = Counters
          /\ (IsCall("attempt_recover") /\ child' # None) =>
                 Attr(mon', "recover_info") \in HookTexts
          /\ (IsCall("run_recovered") /\ child' # None) =>
                 Attr(mon', "recovered_info") \in HookTexts]_vars

\* the recovered command could not be launched, after the recover command had
\* exited with code 1
C12_Witness ==
    /\ lastOp.name = "run_recovered" /\ child # None /\ ret = None
    /\ Attr(mon, "recovered_info") = PyStr(UnableText \o <<"E", "N", "O", "E", "N", "T">>)
    /\ Attr(mon, "recover_info") = PyStr(ExecutedText \o <<"1">>)
    /\ state(mon) = OK /\ Attr(mon, "failures").n = 1

(***************************************************************************)
(* Properties of the durations (specification SpecUpDown)                  *)
(***************************************************************************)
\* the whole seconds of a timedelta
WholeSeconds(td) == td.days * 86400 + td.seconds

\* C13: from_timedelta decomposes every non-negative duration into days, hours,
\* minutes and seconds with 0 <= hours < 24, 0 <= minutes < 60, 0 <= seconds < 60
\* that add up to the duration's whole seconds, and str() renders it as
\* days+HH:MM:SS (1 day 2 hours 3 minutes 4 seconds as "1+02:03:04").
C13_Decomposition ==
    /\ (lastOp.name = "from_timedelta" /\ lastOp.arg # None) =>
           /\ ret.days >= 0
           /\ ret.hours \in 0..23
           /\ ret.minutes \in 0..59
           /\ ret.seconds \in 0..59
           /\ ret.days * 86400 + ret.hours * 3600 + ret.minutes * 60 + ret.seconds
                  = WholeSeconds(lastOp.arg)
    /\ (lastOp.name = "__str__" /\ lastOp.arg = UpDownTime(1, 2, 3, 4)) =>
           ret = PyStr(<<"1", "+", "0", "2", ":", "0", "3", ":", "0", "4">>)

(***************************************************************************)
(* Properties of the configuration (specification SpecConfig)              *)
(***************************************************************************)
\* the number that an option's value denotes
NumberOf(value) == IF value.t = "str" THEN int(value.s) ELSE value.n

\* C14: the resolver fails whenever an int or float option's value, text or
\* native number, is below the minimum or above the maximum; so every Monitor
\* that was constructed has tolerance >= 0 and gap >= 0.
C14_BoundsEnforced ==
    /\ lastOp.name = "get_config_option" =>
           \A n \in {NumberOf(lastOp.arg.config_options.map[lastOp.arg.key])} :
              (n < lastOp.arg.kwargs.minimum.n \/ n > lastOp.arg.kwargs.maximum.n)
                  => ret.t = "raise"
    /\ (lastOp.name = "__init__" /\ "config_options" \in DOMAIN lastOp.arg
           /\ ret.t # "raise") =>
           /\ Attr(mon, "_tolerance").n >= 0
           /\ Attr(mon, "_minimum_gap").n >= 0

(***************************************************************************)
(* Properties of the counters and stamps (specification Spec)              *)
(***************************************************************************)
UptimeStart == Attr(mon, "uptime_start")

\* C15: record_success always leaves error_count 0 and the state OK and returns
\* True; it stamps uptime_start only on the first success of a streak (there is
\* no stamp yet, as after a failure), and every later success in a row keeps
\* the stamp of the first.
C15_SuccessStamp ==
    [][IsCall("record_success") =>
          /\ Attr(mon', "error_count").n = 0
          /\ state(mon') = OK
          /\ ret' = PyBool(TRUE)
          /\ UptimeStart' # UptimeStart => (UptimeStart = None /\ UptimeStart' = utcnow(clock))
          /\ lastOp.name = "record_fail" => UptimeStart' = utcnow(clock)
          /\ lastOp.name = "record_success" => UptimeStart' = UptimeStart]_vars

\* the second success in a row, a second after the first: the stamp is the first's
C15_Witness ==
    /\ lastOp.name = "record_success" /\ Attr(mon, "success_count").n = 2
    /\ Attr(mon, "failures").n = 1
    /\ Attr(mon, "last_update") = utcnow(clock)
    /\ UptimeStart # None /\ UptimeStart # utcnow(clock)

(***************************************************************************)
(* Properties of the assignments (specification SpecSetters)               *)
(***************************************************************************)
\* the assignment was refused: it raised, and the monitor is as it was
Rejected == ret'.t = "raise" /\ mon' = mon

\* bool is a subclass of int: True and False are integers
IsInteger(value) == value.t \in {"int", "bool"}

\* C16 as stated: a value that is not a bool assigned to notify or to urgent,
\* and a negative or non-integer value assigned to minimum_gap, is rejected
\* and the property keeps its value.
C16_SettersReject ==
    [][/\ (IsCall("notify") /\ lastOp'.arg.t # "bool") => Rejected
       /\ (IsCall("urgent") /\ lastOp'.arg.t # "bool") => Rejected
       /\ (IsCall("minimum_gap") /\ ~IsInteger(lastOp'.arg)) => Rejected
       /\ (IsCall("minimum_gap") /\ IsInteger(lastOp'.arg) /\ AsInt(lastOp'.arg) < 0)
              => Rejected]_vars

\* C16 amended: urgent rejects only a value that is neither a bool nor an int,
\* and an int assigned to urgent is stored as its truth value; notify rejects
\* every value that is not a bool and minimum_gap every negative or non-integer
\* value; a rejected assignment leaves the property as it was.
C16_SettersChecked ==
    [][/\ (IsCall("notify") /\ lastOp'.arg.t # "bool") => Rejected
       /\ (IsCall("urgent") /\ ~IsInteger(lastOp'.arg)) => Rejected
       /\ (IsCall("urgent") /\ lastOp'.arg.t = "int") =>
              /\ ret' = None
              /\ Attr(mon', "_urgent") = PyBool(lastOp'.arg.n # 0)
       /\ (IsCall("minimum_gap") /\ ~IsInteger(lastOp'.arg)) => Rejected
       /\ (IsCall("minimum_gap") /\ IsInteger(lastOp'.arg) /\ AsInt(lastOp'.arg) < 0)
              => Rejected]_vars

\* urgent was set to False, then assigned a str: refused, and still False
C16_Witness ==
    /\ lastOp = [name |-> "urgent", arg |-> PyStr(<<"1">>)]
    /\ ret = PyRaise("TypeError")
    /\ Attr(mon, "_urgent") = PyBool(FALSE)
    /\ Attr(mon, "_minimum_gap") = PyInt(2)

\* C17: in every state that record_success, record_fail and record_skip calls
\* reach, error_count = 0 implies that the state is OK, SKIPPED or UNKNOWN
\* (a FAILED monitor has error_count > 0).
C17_FailedHasErrors ==
    /\ ErrorCount = 0 => state(mon) \in {OK, SKIPPED, UNKNOWN}
    /\ state(mon) = FAILED => ErrorCount > 0

\* a monitor that failed past its tolerance and then passed: error_count 0, OK
C17_Witness ==
    /\ lastOp.name = "record_success" /\ Attr(mon, "failures").n = 1
    /\ Attr(mon, "last_error_count").n = 2 /\ Tolerance = 1
    /\ ErrorCount = 0 /\ state(mon) = OK

\* the stamps of the first and the last failure and the lifetime failures counter
FailureRecord == <<Attr(mon, "_failed_at"), Attr(mon, "last_failure"), Attr(mon, "failures")>>

\* C18: a record_fail that brings error_count to tolerance + 1 stamps _failed_at
\* and last_failure with the current time, adds exactly one to failures and
\* makes the state FAILED; a record_fail that leaves error_count at any other
\* value changes none of the three nor the state, and no other step changes
\* any of the three.
C18_StampOnCrossing ==
    [][/\ (IsCall("record_fail") /\ ErrorCount' = Tolerance + 1) =>
              /\ FailureRecord' = <<utcnow(clock), utcnow(clock),
                                    PyInt(Attr(mon, "failures").n + 1)>>
              /\ state(mon') = FAILED
       /\ (IsCall("record_fail") /\ ErrorCount' # Tolerance + 1) =>
              /\ FailureRecord' = FailureRecord
              /\ state(mon') = state(mon)
       /\ ~IsCall("record_fail") => FailureRecord' = FailureRecord]_vars

\* the second episode, a second after the first: stamped anew, failures is 2
C18_Witness ==
    /\ lastOp.name = "record_fail" /\ ErrorCount = Tolerance + 1 /\ Tolerance = 1
    /\ clock.s > StartSeconds
    /\ FailureRecord = <<utcnow(clock), utcnow(clock), PyInt(2)>>
    /\ state(mon) = FAILED

\* the status projection of the monitor now, on its own machine
Projection == state_dict(mon, clock, Hostname).map

\* C19: once record_success has reset error_count to 0, the time of the first
\* failure is cleared or ignored: for a monitor that is passing after a
\* recovery, first_failure_time() is None and the status projection has the
\* empty string as failed_at, no first_failure_time and a downtime of zero.
C19_FailureStampCleared ==
    (state(mon) = OK /\ ErrorCount = 0 /\ Attr(mon, "failures").n > 0) =>
        /\ first_failure_time(mon) = None
        /\ Projection.failed_at = PyStr(<<>>)
        /\ Projection.first_failure_time = None
        /\ Projection.downtime = PyStr(<<"0", "+", "0", "0", ":", "0", "0", ":", "0", "0">>)

(***************************************************************************)
(* Properties of the dependencies (specification SpecDeps)                 *)
(***************************************************************************)
\* the names in remaining_dependencies
Remaining(self) == Range(remaining_dependencies(self).items)

\* C20: after dependency_succeeded(name) the name is not in
\* remaining_dependencies, whatever list was configured, also one that holds
\* the name twice; with a name that is not there the call changes nothing; and
\* the call never changes the declared dependencies.
C20_SucceededRemoved ==
    [][IsCall("dependency_succeeded") =>
          /\ lastOp'.arg \notin Remaining(mon')
          /\ lastOp'.arg \notin Remaining(mon) => mon' = mon
          /\ Attr(mon', "_dependencies") = Attr(mon, "_dependencies")]_vars

\* the names in dependencies
Declared(self) == Range(Attr(self, "_dependencies").items)

\* C21: from construction on and after any interleaving of reset_dependencies,
\* dependency_succeeded and assignments to dependencies, every element of
\* remaining_dependencies is an element of dependencies, and right after
\* reset_dependencies the two lists are equal.
C21_RemainingDeclared ==
    /\ Remaining(mon) \subseteq Declared(mon)
    /\ lastOp.name = "reset_dependencies" =>
           remaining_dependencies(mon) = Attr(mon, "_dependencies")

\* configured with "a, b", a has succeeded: b remains of a and b
C21_Witness ==
    /\ lastOp = [name |-> "dependency_succeeded", arg |-> PyStr(<<"a">>)]
    /\ Attr(mon, "_dependencies") = PyList(<<PyStr(<<"a">>), PyStr(<<"b">>)>>)
    /\ remaining_dependencies(mon) = PyList(<<PyStr(<<"b">>)>>)

SuccessCount == Attr(mon, "success_count").n

\* C22: in every state that record_success, record_fail and record_skip calls
\* reach, uptime_start is set if and only if success_count > 0 (the monitor is
\* in a streak of successes since its last failure); so error_count > 0 implies
\* that uptime_start is None and success_count is 0.
C22_UptimeIffStreak ==
    /\ UptimeStart # None <=> SuccessCount > 0
    /\ ErrorCount > 0 => (UptimeStart = None /\ SuccessCount = 0)

\* a failure within the tolerance broke a streak of two successes
C22_Witness ==
    /\ lastOp.name = "record_fail" /\ Attr(mon, "tests_run").n = 3
    /\ ErrorCount = 1 /\ Tolerance = 1 /\ state(mon) = OK
    /\ UptimeStart = None /\ SuccessCount = 0

(***************************************************************************)
(* Properties of the unavailable time (specification SpecAvail)            *)
(***************************************************************************)
UnavailableSeconds == Attr(mon, "unavailable_seconds").n

\* whole seconds from the datetime since to the clock's reading
Elapsed(since) == WholeSeconds(timedelta(utcnow(clock), since))

\* C23: record_fail and record_success add to unavailable_seconds all the whole
\* seconds elapsed since last_update exactly when the result recorded before
\* was a failure (last_update is set and success_count is 0 before the call),
\* and nothing otherwise; unavailable_seconds never decreases and never exceeds
\* the time elapsed since _first_load.
C23_UnavailableTime ==
    [][/\ (IsCall("record_fail") \/ IsCall("record_success")) =>
              UnavailableSeconds' =
                  UnavailableSeconds
                  + (IF Attr(mon, "last_update") # None /\ SuccessCount = 0
                     THEN Elapsed(Attr(mon, "last_update")) ELSE 0)
       /\ UnavailableSeconds' >= UnavailableSeconds
       /\ UnavailableSeconds' <= Elapsed(Attr(mon, "_first_load"))']_vars

(***************************************************************************)
(* Properties of the test monitors (specification SpecTests)               *)
(***************************************************************************)
\* the interval of the MonitorFail
Interval == Attr(mon, "interval").n

C25_FailedWhileFailing ==
    (lastOp.name = "record_fail" /\ virtual_fail_count(mon) > 0) => state(mon) = FAILED

==========================================================================
